---- MODULE Spec2Model ----
(***************************************************************************)
(* Test-time adaptation by batch nuclear-norm minimisation                 *)
(* (cifar/utils/bnm_utils.py).  A model is a list of modules with          *)
(* parameters, gradient flags and batch-norm buffers; an Adam optimizer    *)
(* holds per-parameter moments; the BNM wrapper holds a deep copy of both  *)
(* state dicts and adapts the model on every forward.                      *)
(*                                                                         *)
(* Tensors are abstracted to residues modulo ValMod.  The network output   *)
(* is kept symbolic: it records the batch, the parameter values and the    *)
(* statistics each batch-norm layer normalised with, so two outputs are    *)
(* equal exactly when everything the real output depends on is equal.      *)
(***************************************************************************)
EXTENDS Integers, Sequences, FiniteSets, TLC

\* ---------------------------------------------------------------- bounds
MaxOps == 5        \* operations performed in one run
NumBatches == 2    \* distinct input batches
MaxSteps == 2      \* largest step count a wrapper is built with
ValMod == 3        \* tensors are residues modulo ValMod
MaxNepoch == 6     \* largest --nepoch the driver is run with
MaxStopepoch == 3  \* largest --stopepoch the driver is run with
MaxErr == 2        \* test errors are 0..MaxErr

\* None, for a buffer / gradient that is absent
NoVal == 0 - 1

Batches == 1..NumBatches

\* The module lists of the models that are adapted (named_modules order).
Archs ==
  { <<"BatchNorm2d">>,
    <<"Conv2d", "Conv2d">>,
    <<"Conv2d", "BatchNorm2d">>,
    <<"BatchNorm2d", "ReLU", "BatchNorm2d">>,
    <<"ReLU">> }

\* m.named_parameters() of one module
ParamNames(kind) == IF kind = "ReLU" THEN <<>> ELSE <<"weight", "bias">>

IsBN(kind) == kind = "BatchNorm2d"

RECURSIVE ParamsFrom(_, _)
\* model.parameters() / model.named_parameters(): module by module, in order
ParamsFrom(arch, i) ==
  IF i > Len(arch) THEN <<>>
  ELSE [k \in 1..Len(ParamNames(arch[i])) |-> <<i, ParamNames(arch[i])[k]>>]
       \o ParamsFrom(arch, i + 1)

Parameters(m) == ParamsFrom(m.arch, 1)

Range(s) == {s[k] : k \in 1..Len(s)}

ParamSet(m) == Range(Parameters(m))

BNIdx(arch) == {i \in 1..Len(arch) : IsBN(arch[i])}

\* the parameters with requires_grad set
Trainable(m) == {p \in ParamSet(m) : m.rg[p]}

\* ------------------------------------------------------------ state dicts

\* model.state_dict(): parameters and buffers; neither the train/eval flag
\* nor requires_grad nor .grad is part of it
state_dict(m) ==
  [val |-> m.val, rmean |-> m.rmean, rvar |-> m.rvar, nbt |-> m.nbt]

\* the keys of a state dict: a buffer that is None has no key
Keys(sd) ==
  [rmean |-> {i \in DOMAIN sd.rmean : sd.rmean[i] # NoVal},
   rvar  |-> {i \in DOMAIN sd.rvar : sd.rvar[i] # NoVal}]

\* model.load_state_dict(sd, strict=True): copies the values into the live
\* tensors; a key mismatch raises and loads nothing
load_state_dict(m, sd) ==
  IF Keys(sd) # Keys(state_dict(m))
  THEN [model |-> m, err |-> "Error(s) in loading state_dict"]
  ELSE [model |-> [m EXCEPT !.val = sd.val, !.rmean = sd.rmean,
                            !.rvar = sd.rvar, !.nbt = sd.nbt],
        err |-> ""]

\* optimizer.state_dict(): the per-parameter Adam state
optimizer_state_dict(o) == o.state

\* optimizer.load_state_dict(osd)
optimizer_load_state_dict(o, osd) == [o EXCEPT !.state = osd]

\* deepcopy of both state dicts, independent of the live tensors
copy_model_and_optimizer(m, o) ==
  [model_state |-> state_dict(m),
   optimizer_state |-> optimizer_state_dict(o)]

\* load_model_and_optimizer without its second line: the optimizer keeps its
\* moments (a variant the round trip must tell apart)
load_model_only(m, o, model_state, optimizer_state) ==
  [model |-> load_state_dict(m, model_state).model, optimizer |-> o,
   err |-> load_state_dict(m, model_state).err]

\* restore both from the copies
load_model_and_optimizer(m, o, model_state, optimizer_state) ==
  LET r == load_state_dict(m, model_state)
  IN IF r.err # ""
     THEN [model |-> r.model, optimizer |-> o, err |-> r.err]
     ELSE [model |-> r.model,
           optimizer |-> optimizer_load_state_dict(o, optimizer_state),
           err |-> ""]

\* ------------------------------------------------------------ configuration

\* model.train() / model.eval()
train(m) == [m EXCEPT !.training = TRUE]
eval(m) == [m EXCEPT !.training = FALSE]

\* module.requires_grad_(flag) on module i (all of its parameters)
ModuleRequiresGrad(m, i, flag) ==
  [m EXCEPT !.rg = [p \in DOMAIN @ |-> IF p[1] = i THEN flag ELSE @[p]]]

\* model.requires_grad_(flag): every parameter of the model
ModelRequiresGrad(m, flag) ==
  [m EXCEPT !.rg = [p \in DOMAIN @ |-> flag]]

RECURSIVE ConfigureModules_keepstats(_, _)
\* the loop of configure_model without its last two assignments: the
\* batch-norm layers keep their running statistics
ConfigureModules_keepstats(m, i) ==
  IF i > Len(m.arch) THEN m
  ELSE IF IsBN(m.arch[i])
       THEN ConfigureModules_keepstats(
              [ModuleRequiresGrad(m, i, TRUE) EXCEPT !.track[i] = FALSE],
              i + 1)
       ELSE ConfigureModules_keepstats(m, i + 1)

RECURSIVE ConfigureModules(_, _)
\* the loop over model.modules() of configure_model
ConfigureModules(m, i) ==
  IF i > Len(m.arch) THEN m
  ELSE IF IsBN(m.arch[i])
       THEN ConfigureModules(
              [ModuleRequiresGrad(m, i, TRUE)
                 EXCEPT !.track[i] = FALSE,
                        !.rmean[i] = NoVal,
                        !.rvar[i] = NoVal],
              i + 1)
       ELSE ConfigureModules(m, i + 1)

\* configure_model with the mode switched instead of set to train
configure_model_flipmode(m) ==
  ConfigureModules(ModelRequiresGrad([m EXCEPT !.training = ~@], FALSE), 1)

\* configure_model without model.requires_grad_(False)
configure_model_nofreeze(m) == ConfigureModules(train(m), 1)

configure_model(m) ==
  ConfigureModules(ModelRequiresGrad(train(m), FALSE), 1)

\* any(...) and all(...) over a list of booleans
py_any(l) == \E k \in 1..Len(l) : l[k]
py_all(l) == \A k \in 1..Len(l) : l[k]

\* check_model without its last assertion
check_model_no_bn(m) ==
  IF ~m.training THEN "BNM needs train mode: call model.train()"
  ELSE IF Trainable(m) = {}
       THEN "BNM needs params to update: check which require grad"
  ELSE IF Trainable(m) = ParamSet(m)
       THEN "BNM should not update all params: check which require grad"
  ELSE "ok"

\* check_model: "ok", or the message of the first assertion that fails
check_model(m) ==
  LET is_training == m.training
      param_grads == [k \in 1..Len(Parameters(m)) |-> m.rg[Parameters(m)[k]]]
      has_any_params == py_any(param_grads)
      has_all_params == py_all(param_grads)
      has_bn == py_any([i \in 1..Len(m.arch) |-> IsBN(m.arch[i])])
  IN IF ~is_training THEN "BNM needs train mode: call model.train()"
     ELSE IF ~has_any_params
          THEN "BNM needs params to update: check which require grad"
     ELSE IF has_all_params
          THEN "BNM should not update all params: check which require grad"
     ELSE IF ~has_bn THEN "BNM needs normalization for its optimization"
     ELSE "ok"

\* the name named_modules() gives module i: its position in the container
ModuleName(i) == ToString(i)

\* the name named_parameters() gives parameter p of the model
ParamName(p) == ModuleName(p[1]) \o "." \o p[2]

RECURSIVE CollectBN(_, _)
\* the bn_only branch of collect_params, from module i on
CollectBN(m, i) ==
  IF i > Len(m.arch) THEN [params |-> <<>>, names |-> <<>>]
  ELSE LET rest == CollectBN(m, i + 1)
           nps == SelectSeq(ParamNames(m.arch[i]),
                            LAMBDA np : np \in {"weight", "bias"})
       IN IF IsBN(m.arch[i])
          THEN [params |-> [k \in 1..Len(nps) |-> <<i, nps[k]>>] \o rest.params,
                names |-> [k \in 1..Len(nps) |-> ModuleName(i) \o "." \o nps[k]]
                          \o rest.names]
          ELSE rest

\* collect_params that takes its second branch whatever bn_only is
collect_params_all(m, bn_only) ==
  [params |-> Parameters(m),
   names |-> [k \in 1..Len(Parameters(m)) |-> ParamName(Parameters(m)[k])]]

collect_params(m, bn_only) ==
  IF bn_only THEN CollectBN(m, 1)
  ELSE [params |-> Parameters(m),
        names |-> [k \in 1..Len(Parameters(m)) |-> ParamName(Parameters(m)[k])]]

\* optim.Adam(params, lr, betas, weight_decay=0): no state until the first step
setup_optimizer(params) ==
  [made |-> TRUE, params |-> Range(params), state |-> <<>>]

\* ------------------------------------------------------------ forward pass

\* the statistics batch-norm layer i normalises with: those of the batch in
\* train mode or when it holds no running statistics, the running ones otherwise
BNStat(m, i, x) ==
  IF m.training \/ (m.rmean[i] = NoVal /\ m.rvar[i] = NoVal)
  THEN [src |-> "batch", mean |-> x, var |-> x]
  ELSE [src |-> "running", mean |-> m.rmean[i], var |-> m.rvar[i]]

\* outputs = model(x): the output, and the model with the running statistics
\* of every tracking batch-norm layer moved towards the batch (train mode only)
model_call(m, x) ==
  LET upd(i) == m.training /\ m.track[i]
      moved(old, d) == IF old = NoVal THEN NoVal ELSE (old + d) % ValMod
  IN [model |->
        [m EXCEPT
           !.rmean = [i \in DOMAIN @ |-> IF upd(i) THEN moved(@[i], x) ELSE @[i]],
           !.rvar = [i \in DOMAIN @ |-> IF upd(i) THEN moved(@[i], x * x) ELSE @[i]],
           !.nbt = [i \in DOMAIN @ |-> IF upd(i) /\ @[i] # NoVal THEN @[i] + 1 ELSE @[i]]],
      out |-> [x |-> x, val |-> m.val,
               stat |-> [i \in BNIdx(m.arch) |-> BNStat(m, i, x)]]]

\* loss.backward(): a gradient for every parameter that requires grad,
\* accumulated into .grad
backward(m, x) ==
  LET g(p) == (x + m.val[p] + 1) % ValMod
  IN [m EXCEPT !.grad = [p \in DOMAIN @ |->
        IF m.rg[p]
        THEN (IF @[p] = NoVal THEN g(p) ELSE (@[p] + g(p)) % ValMod)
        ELSE @[p]]]

\* an optimizer step that does not skip the parameters without a gradient:
\* every parameter it holds is moved
optimizer_step_all(m, o) ==
  LET old(p) == IF p \in DOMAIN o.state THEN o.state[p]
                ELSE [step |-> 0, exp_avg |-> 0, exp_avg_sq |-> 0]
      g(p) == IF m.grad[p] = NoVal THEN 0 ELSE m.grad[p]
      new(p) == [step |-> old(p).step + 1,
                 exp_avg |-> (old(p).exp_avg + g(p)) % ValMod,
                 exp_avg_sq |-> (old(p).exp_avg_sq + g(p) * g(p)) % ValMod]
      delta(p) == 1 + new(p).exp_avg + new(p).exp_avg_sq + new(p).step
  IN [model |-> [m EXCEPT !.val = [p \in DOMAIN @ |->
                    IF p \in o.params THEN (@[p] + delta(p)) % ValMod ELSE @[p]]],
      optimizer |-> [o EXCEPT !.state = [p \in (DOMAIN @) \cup o.params |->
                    IF p \in o.params THEN new(p) ELSE @[p]]]]

\* optimizer.step() of Adam with weight_decay = 0: parameters of the optimizer
\* whose .grad is None are skipped; the others get their moments and their
\* value updated
optimizer_step(m, o) ==
  LET upd == {p \in o.params : m.grad[p] # NoVal}
      old(p) == IF p \in DOMAIN o.state THEN o.state[p]
                ELSE [step |-> 0, exp_avg |-> 0, exp_avg_sq |-> 0]
      new(p) == [step |-> old(p).step + 1,
                 exp_avg |-> (old(p).exp_avg + m.grad[p]) % ValMod,
                 exp_avg_sq |-> (old(p).exp_avg_sq + m.grad[p] * m.grad[p]) % ValMod]
      delta(p) == 1 + new(p).exp_avg + new(p).exp_avg_sq + new(p).step
  IN [model |-> [m EXCEPT !.val = [p \in DOMAIN @ |->
                    IF p \in upd THEN (@[p] + delta(p)) % ValMod ELSE @[p]]],
      optimizer |-> [o EXCEPT !.state = [p \in (DOMAIN @) \cup upd |->
                    IF p \in upd THEN new(p) ELSE @[p]]]]

\* optimizer.zero_grad(): the gradients of the optimizer's parameters are cleared
zero_grad(m, o) ==
  [m EXCEPT !.grad = [p \in DOMAIN @ |-> IF p \in o.params THEN NoVal ELSE @[p]]]

Ev(name, x, training, g) ==
  [ev |-> name, x |-> x, training |-> training, grad |-> g]

\* the end of forward_and_adapt: s is what optimizer.step() left, then
\* optimizer.zero_grad() and return outputs
AdaptReturn(x, f, s) ==
  [model |-> zero_grad(s.model, s.optimizer), optimizer |-> s.optimizer,
   out |-> f.out, err |-> "",
   log |-> <<Ev("train", x, TRUE, TRUE),
             Ev("forward", x, f.model.training, TRUE),
             Ev("backward", x, s.model.training, TRUE),
             Ev("step", x, s.model.training, TRUE),
             Ev("zero_grad", x, s.model.training, TRUE)>>]

\* forward_and_adapt from loss.backward() on: f is what outputs = model(x)
\* gave.  loss.backward() raises when no parameter requires grad (the loss
\* has no grad_fn); the train() and the forward have happened by then.
AdaptUpdate(x, o, f) ==
  IF Trainable(f.model) = {}
  THEN [model |-> f.model, optimizer |-> o, out |-> f.out,
        err |-> "element 0 of tensors does not require grad",
        log |-> <<Ev("train", x, TRUE, TRUE),
                  Ev("forward", x, f.model.training, TRUE)>>]
  ELSE AdaptReturn(x, f, optimizer_step(backward(f.model, x), o))

\* forward_and_adapt without its model.train()
forward_and_adapt_notrain(x, m, o) == AdaptUpdate(x, o, model_call(m, x))

\* forward_and_adapt(x, model, optimizer), under torch.enable_grad()
forward_and_adapt(x, m, o) == AdaptUpdate(x, o, model_call(train(m), x))

\* the return of forward_only
OnlyReturn(x, f) ==
  [model |-> f.model, out |-> f.out,
   log |-> <<Ev("eval", x, FALSE, FALSE),
             Ev("forward", x, f.model.training, FALSE)>>]

\* forward_only without its model.eval()
forward_only_noeval(x, m) == OnlyReturn(x, model_call(m, x))

\* forward_only(x, model): eval mode, under torch.no_grad()
forward_only(x, m) == OnlyReturn(x, model_call(eval(m), x))

\* ------------------------------------------------------------ the wrapper

\* the live state a snapshot covers
Live(m, o) == [model_state |-> state_dict(m),
               optimizer_state |-> optimizer_state_dict(o)]

NoWrapper ==
  [made |-> FALSE, steps |-> 0, episodic |-> FALSE,
   model_state |-> <<>>, optimizer_state |-> <<>>]

NoOptimizer == [made |-> FALSE, params |-> {}, state |-> <<>>]

\* the state copy at the end of BNM.__init__; <<>> stands for None
InitCopy(steps, episodic, c) ==
  [w |-> [made |-> TRUE, steps |-> steps, episodic |-> episodic,
          model_state |-> <<c.model_state>>,
          optimizer_state |-> <<c.optimizer_state>>],
   err |-> ""]

\* BNM.__init__ without its assertion
BNM_init_unchecked(m, o, steps, episodic) ==
  InitCopy(steps, episodic, copy_model_and_optimizer(m, o))

\* BNM.__init__: the assertion on steps fails the construction; otherwise the
\* state copy is taken
BNM_init(m, o, steps, episodic) ==
  IF ~(steps > 0)
  THEN [w |-> NoWrapper,
        err |-> "BNM requires >= 1 step(s) to forward and update"]
  ELSE InitCopy(steps, episodic, copy_model_and_optimizer(m, o))

\* the outcome of BNM.reset, r being what load_model_and_optimizer left
ResetReturn(w, r) ==
  [w |-> w, model |-> r.model, optimizer |-> r.optimizer, err |-> r.err,
   log |-> IF r.err = "" THEN <<Ev("load", 0, r.model.training, TRUE)>> ELSE <<>>]

\* a reset that returns silently when a copy is missing
BNM_reset_silent(w, m, o) ==
  IF w.model_state = <<>> \/ w.optimizer_state = <<>>
  THEN [w |-> w, model |-> m, optimizer |-> o, err |-> "", log |-> <<>>]
  ELSE ResetReturn(w, load_model_and_optimizer(m, o, w.model_state[1],
                                               w.optimizer_state[1]))

\* BNM.reset
BNM_reset(w, m, o) ==
  IF w.model_state = <<>> \/ w.optimizer_state = <<>>
  THEN [w |-> w, model |-> m, optimizer |-> o,
        err |-> "cannot reset without saved model/optimizer state",
        log |-> <<>>]
  ELSE ResetReturn(w, load_model_and_optimizer(m, o, w.model_state[1],
                                               w.optimizer_state[1]))

\* one pass of the adaptation loop done: c before it, r what it returned
Adapted(c, r) ==
  [model |-> r.model, optimizer |-> r.optimizer, outs |-> Append(c.outs, r.out),
   log |-> c.log \o r.log, err |-> r.err]

RECURSIVE AdaptLoop(_, _, _)
\* for _ in range(n): forward_and_adapt(x, self.model, self.optimizer)
AdaptLoop(c, x, n) ==
  IF n <= 0 \/ c.err # "" THEN c
  ELSE AdaptLoop(Adapted(c, forward_and_adapt(x, c.model, c.optimizer)), x, n - 1)

\* a forward that returns the outputs of its last adaptation step
ForwardReturn_adapt(r, a, f) ==
  [w |-> r.w, model |-> f.model, optimizer |-> a.optimizer, err |-> "",
   out |-> <<a.outs[Len(a.outs)]>>, outs |-> a.outs, log |-> a.log \o f.log,
   start |-> <<Live(r.model, r.optimizer)>>]

\* BNM.forward from outputs = forward_only(x, self.model) on
ForwardReturn(r, a, f) ==
  [w |-> r.w, model |-> f.model, optimizer |-> a.optimizer, err |-> "",
   out |-> <<f.out>>, outs |-> a.outs, log |-> a.log \o f.log,
   start |-> <<Live(r.model, r.optimizer)>>]

\* BNM.forward after its adaptation loop, which left a
ForwardFinal(x, r, a) ==
  IF a.err # ""
  THEN [w |-> r.w, model |-> a.model, optimizer |-> a.optimizer, err |-> a.err,
        out |-> <<>>, outs |-> a.outs, log |-> a.log,
        start |-> <<Live(r.model, r.optimizer)>>]
  ELSE ForwardReturn(r, a, forward_only(x, a.model))

\* BNM.forward after the episodic reset, which left r
ForwardAdapt(x, r) ==
  IF r.err # ""
  THEN [w |-> r.w, model |-> r.model, optimizer |-> r.optimizer, err |-> r.err,
        out |-> <<>>, outs |-> <<>>, log |-> r.log, start |-> <<>>]
  ELSE ForwardFinal(x, r,
         AdaptLoop([model |-> r.model, optimizer |-> r.optimizer,
                    outs |-> <<>>, log |-> r.log, err |-> ""],
                   x, r.w.steps))

\* a forward that never resets
BNM_forward_noreset(w, m, o, x) ==
  ForwardAdapt(x, [w |-> w, model |-> m, optimizer |-> o, err |-> "", log |-> <<>>])

\* a forward that resets in both modes
BNM_forward_always_reset(w, m, o, x) == ForwardAdapt(x, BNM_reset(w, m, o))

\* a forward that takes the state copy again once it has adapted
Recapture(r) ==
  [r EXCEPT !.w.model_state = <<state_dict(r.model)>>,
            !.w.optimizer_state = <<optimizer_state_dict(r.optimizer)>>]

BNM_forward_recapture(w, m, o, x) ==
  Recapture(ForwardAdapt(x,
    IF w.episodic THEN BNM_reset(w, m, o)
    ELSE [w |-> w, model |-> m, optimizer |-> o, err |-> "", log |-> <<>>]))

\* BNM.forward.  start is the live state when the adaptation loop is entered,
\* outs the outputs of the adaptation steps, out the value returned.
BNM_forward(w, m, o, x) ==
  ForwardAdapt(x,
    IF w.episodic THEN BNM_reset(w, m, o)
    ELSE [w |-> w, model |-> m, optimizer |-> o, err |-> "", log |-> <<>>])

\* the arguments setup_bnm passes
SetupSteps == 1
SetupEpisodic == FALSE
SetupBnOnly == FALSE

\* setup_bnm from BNM(model, optimizer, ...) on: b is what the construction gave
SetupReturn(m, o, b) ==
  [model |-> m, optimizer |-> o, w |-> b.w, err |-> b.err]

\* setup_bnm from the construction of the optimizer on
SetupWrap(m, o) ==
  SetupReturn(m, o, BNM_init(m, o, SetupSteps, SetupEpisodic))

\* setup_bnm from collect_params on: m is the configured model
SetupCollect(m) ==
  SetupWrap(m, setup_optimizer(collect_params(m, SetupBnOnly).params))

\* setup_bnm(model, args)
setup_bnm(m) == SetupCollect(configure_model(m))

\* ------------------------------------------------------------ state

VARIABLES
  model,      \* the network: arch, training, rg, val, grad, track, rmean, rvar, nbt
  optimizer,  \* the Adam optimizer: made, params, state
  wrapper,    \* the BNM object: made, steps, episodic, model_state, optimizer_state
  phase,      \* "model" -> "optim" -> "wrapped"
  viaSetup,   \* the wrapper was built by setup_bnm
  nops,       \* operations performed so far
  lastOp,     \* the operation performed last
  lastX,      \* its argument: the input batch, the step count of a
              \* construction; 0 when it takes none
  err,        \* the message of the exception it raised, "" when it returned
  outputs,    \* <<value returned by BNM.forward>>, <<>> otherwise
  log,        \* the events of the last operation, in order
  adaptOuts,  \* the outputs of the adaptation steps of the last operation
  start,      \* <<live state when the last forward entered its adaptation loop>>
  pre,        \* the model and optimizer before the last operation
  captured,   \* <<live state when the wrapper was constructed>>
  rets,       \* per batch, the values the wrapper has returned for it, in order
  adapted,    \* adaptation steps completed through the wrapper
  collected,  \* <<what the last collect_params returned>>, <<>> otherwise
  args,       \* the driver's arguments: nepoch, stopepoch
  epoch,      \* the driver's loop variable, 0 before the first epoch
  all_err_cls,\* the test errors the driver has recorded
  pc          \* the driver: "idle", "loop", "break", "done" or "raised"

vars == <<model, optimizer, wrapper, phase, viaSetup, nops, lastOp, lastX, err,
          outputs, log, adaptOuts, start, pre, captured, rets, adapted, collected,
          args, epoch, all_err_cls, pc>>

loopVars == <<args, epoch, all_err_cls, pc>>

\* requires_grad flags as set module by module
ModuleFlags(arch) ==
  {f \in [Range(ParamsFrom(arch, 1)) -> BOOLEAN] :
     \A p \in DOMAIN f, q \in DOMAIN f : p[1] = q[1] => f[p] = f[q]}

\* a freshly built, freshly loaded network: no gradients, batch-norm layers
\* tracking running statistics
InitModel(a, t, f) ==
  [arch |-> a, training |-> t, rg |-> f,
   val |-> [p \in Range(ParamsFrom(a, 1)) |-> 0],
   grad |-> [p \in Range(ParamsFrom(a, 1)) |-> NoVal],
   track |-> [i \in BNIdx(a) |-> TRUE],
   rmean |-> [i \in BNIdx(a) |-> 0],
   rvar |-> [i \in BNIdx(a) |-> 1 % ValMod],
   nbt |-> [i \in BNIdx(a) |-> 0]]

\* the wrapper and its model before any operation
BnmInit ==
  /\ \E a \in Archs, t \in BOOLEAN :
       \E f \in ModuleFlags(a) : model = InitModel(a, t, f)
  /\ optimizer = NoOptimizer
  /\ wrapper = NoWrapper
  /\ phase = "model"
  /\ viaSetup = FALSE
  /\ nops = 0
  /\ lastOp = "start"
  /\ lastX = 0
  /\ err = ""
  /\ outputs = <<>>
  /\ log = <<>>
  /\ adaptOuts = <<>>
  /\ start = <<>>
  /\ pre = [model |-> model, optimizer |-> optimizer]
  /\ captured = <<>>
  /\ rets = [x \in Batches |-> <<>>]
  /\ adapted = 0
  /\ collected = <<>>

\* the driver loop not entered
LoopIdle ==
  /\ args = [nepoch |-> 0, stopepoch |-> 0]
  /\ epoch = 0
  /\ all_err_cls = <<>>
  /\ pc = "idle"

Init == BnmInit /\ LoopIdle

\* what every operation records
Op(name, x) ==
  /\ nops < MaxOps
  /\ nops' = nops + 1
  /\ lastOp' = name
  /\ lastX' = x
  /\ pre' = [model |-> model, optimizer |-> optimizer]
  /\ UNCHANGED loopVars

\* configure_model(model), before an optimizer is built on the model
Configure ==
  /\ phase = "model"
  /\ Op("configure", 0)
  /\ model' = configure_model(model)
  /\ err' = "" /\ outputs' = <<>> /\ log' = <<>> /\ adaptOuts' = <<>> /\ start' = <<>>
  /\ collected' = <<>>
  /\ UNCHANGED <<optimizer, wrapper, phase, viaSetup, captured, rets, adapted>>

\* check_model(model)
Check ==
  /\ Op("check", 0)
  /\ err' = (IF check_model(model) = "ok" THEN "" ELSE check_model(model))
  /\ outputs' = <<>> /\ log' = <<>> /\ adaptOuts' = <<>> /\ start' = <<>>
  /\ collected' = <<>>
  /\ UNCHANGED <<model, optimizer, wrapper, phase, viaSetup, captured, rets, adapted>>

\* params, names = collect_params(model, bn_only)
Collect(bn_only) ==
  /\ phase = "model"
  /\ Op("collect", 0)
  /\ collected' = <<[bn_only |-> bn_only,
                     params |-> collect_params(model, bn_only).params,
                     names |-> collect_params(model, bn_only).names]>>
  /\ err' = "" /\ outputs' = <<>> /\ log' = <<>> /\ adaptOuts' = <<>> /\ start' = <<>>
  /\ UNCHANGED <<model, optimizer, wrapper, phase, viaSetup, captured, rets, adapted>>

\* optimizer = setup_optimizer(collect_params(model, bn_only)[0], args)
MakeOptimizer(bn_only) ==
  /\ phase = "model"
  /\ Op("optimizer", 0)
  /\ optimizer' = setup_optimizer(collect_params(model, bn_only).params)
  /\ phase' = "optim"
  /\ err' = "" /\ outputs' = <<>> /\ log' = <<>> /\ adaptOuts' = <<>> /\ start' = <<>>
  /\ collected' = <<>>
  /\ UNCHANGED <<model, wrapper, viaSetup, captured, rets, adapted>>

DirectAdaptDone(r) ==
  /\ model' = r.model
  /\ optimizer' = r.optimizer
  /\ err' = r.err
  /\ log' = r.log
  /\ adaptOuts' = <<r.out>>

\* forward_and_adapt(x, model, optimizer) called on its own, before wrapping
DirectAdapt(x) ==
  /\ phase = "optim"
  /\ Op("adapt", x)
  /\ DirectAdaptDone(forward_and_adapt(x, model, optimizer))
  /\ outputs' = <<>> /\ start' = <<>>
  /\ collected' = <<>>
  /\ UNCHANGED <<wrapper, phase, viaSetup, captured, rets, adapted>>

NewBNMDone(b) ==
  /\ wrapper' = b.w
  /\ err' = b.err
  /\ phase' = IF b.err = "" THEN "wrapped" ELSE phase
  /\ captured' = IF b.err = "" THEN <<Live(model, optimizer)>> ELSE captured

\* BNM(model, optimizer, steps, episodic)
NewBNM(steps, episodic) ==
  /\ phase = "optim"
  /\ Op("init", steps)
  /\ NewBNMDone(BNM_init(model, optimizer, steps, episodic))
  /\ outputs' = <<>> /\ log' = <<>> /\ adaptOuts' = <<>> /\ start' = <<>>
  /\ collected' = <<>>
  /\ UNCHANGED <<model, optimizer, viaSetup, rets, adapted>>

SetupBnmDone(r) ==
  /\ model' = r.model
  /\ optimizer' = r.optimizer
  /\ wrapper' = r.w
  /\ err' = r.err
  /\ phase' = IF r.err = "" THEN "wrapped" ELSE phase
  /\ captured' = IF r.err = "" THEN <<Live(r.model, r.optimizer)>> ELSE captured
  /\ viaSetup' = (r.err = "")

\* bnm_model = setup_bnm(model, args)
SetupBnm ==
  /\ phase = "model"
  /\ Op("setup", 0)
  /\ SetupBnmDone(setup_bnm(model))
  /\ outputs' = <<>> /\ log' = <<>> /\ adaptOuts' = <<>> /\ start' = <<>>
  /\ collected' = <<>>
  /\ UNCHANGED <<rets, adapted>>

ForwardDone(x, r) ==
  /\ model' = r.model
  /\ optimizer' = r.optimizer
  /\ wrapper' = r.w
  /\ err' = r.err
  /\ outputs' = r.out
  /\ log' = r.log
  /\ adaptOuts' = r.outs
  /\ start' = r.start
  /\ rets' = IF r.err = "" THEN [rets EXCEPT ![x] = Append(@, r.out[1])] ELSE rets
  /\ adapted' = adapted
                + Cardinality({k \in 1..Len(r.log) : r.log[k].ev = "zero_grad"})

\* outputs = bnm_model(x)
Forward(x) ==
  /\ phase = "wrapped"
  /\ Op("forward", x)
  /\ ForwardDone(x, BNM_forward(wrapper, model, optimizer, x))
  /\ collected' = <<>>
  /\ UNCHANGED <<phase, viaSetup, captured>>

ResetDone(r) ==
  /\ model' = r.model
  /\ optimizer' = r.optimizer
  /\ wrapper' = r.w
  /\ err' = r.err
  /\ log' = r.log

\* bnm_model.reset()
Reset ==
  /\ phase = "wrapped"
  /\ Op("reset", 0)
  /\ ResetDone(BNM_reset(wrapper, model, optimizer))
  /\ outputs' = <<>> /\ adaptOuts' = <<>> /\ start' = <<>>
  /\ collected' = <<>>
  /\ UNCHANGED <<phase, viaSetup, captured, rets, adapted>>

\* bnm_model.eval(): nn.Module.eval() reaches the wrapped model
Eval ==
  /\ phase = "wrapped"
  /\ Op("eval", 0)
  /\ model' = eval(model)
  /\ err' = "" /\ outputs' = <<>> /\ log' = <<>> /\ adaptOuts' = <<>> /\ start' = <<>>
  /\ collected' = <<>>
  /\ UNCHANGED <<optimizer, wrapper, phase, viaSetup, captured, rets, adapted>>

Next ==
  \/ Configure
  \/ Check
  \/ \E b \in BOOLEAN : Collect(b)
  \/ \E b \in BOOLEAN : MakeOptimizer(b)
  \/ \E x \in Batches : DirectAdapt(x)
  \/ \E n \in (0 - 1)..MaxSteps, e \in BOOLEAN : NewBNM(n, e)
  \/ SetupBnm
  \/ \E x \in Batches : Forward(x)
  \/ Reset
  \/ Eval

Spec == Init /\ [][Next]_vars

\* the caller sets bnm.model_state and / or bnm.optimizer_state to None, the
\* state BNM.reset tests for
ClearSnapshot(ms, os) ==
  /\ ms \/ os
  /\ phase = "wrapped"
  /\ Op("clear", 0)
  /\ wrapper' = [wrapper EXCEPT
                   !.model_state = IF ms THEN <<>> ELSE @,
                   !.optimizer_state = IF os THEN <<>> ELSE @]
  /\ err' = "" /\ outputs' = <<>> /\ log' = <<>> /\ adaptOuts' = <<>> /\ start' = <<>>
  /\ collected' = <<>>
  /\ UNCHANGED <<model, optimizer, phase, viaSetup, captured, rets, adapted>>

\* the operations of the wrapper on an object whose copies may have been cleared
NextCleared ==
  \/ Next
  \/ \E ms \in BOOLEAN, os \in BOOLEAN : ClearSnapshot(ms, os)

SpecCleared == Init /\ [][NextCleared]_vars


\* --------------------------------------------------- the driver (tent.py)

\* the values test(teloader, net)[0] may return
Errors == 0..MaxErr

\* l[i] of a Python list: <<the element>>, or <<>> for IndexError
PyIndex(l, i) ==
  IF i < 0
  THEN (IF Len(l) + i >= 0 THEN <<l[Len(l) + i + 1]>> ELSE <<>>)
  ELSE (IF i < Len(l) THEN <<l[i + 1]>> ELSE <<>>)

\* the first index of the slice l[s:]
PySliceStart(l, s) ==
  IF s < 0 THEN (IF Len(l) + s > 0 THEN Len(l) + s ELSE 0)
  ELSE (IF s < Len(l) THEN s ELSE Len(l))

\* l[s:] of a Python list
PySliceFrom(l, s) == SubSeq(l, PySliceStart(l, s) + 1, Len(l))

\* min(l) of a non-empty list
py_min(l) == CHOOSE m \in Range(l) : \A y \in Range(l) : m <= y

\* the comparison of the termination test: v is all_err_cls[-stopepoch],
\* s is all_err_cls[-stopepoch+1:]
StopCompare(v, s) ==
  IF v = <<>> THEN "IndexError"
  ELSE IF s = <<>> THEN "ValueError"
  ELSE IF v[1] < py_min(s) THEN "true" ELSE "false"

\* the termination test with >= for its first comparison
StopCondition_ge(a, e, l) ==
  IF ~(e >= a.stopepoch + 1) THEN "false"
  ELSE StopCompare(PyIndex(l, 0 - a.stopepoch),
                   PySliceFrom(l, 0 - a.stopepoch + 1))

\* epoch > (args.stopepoch + 1) and
\*   all_err_cls[-args.stopepoch] < min(all_err_cls[-args.stopepoch+1:])
StopCondition(a, e, l) ==
  IF ~(e > a.stopepoch + 1) THEN "false"
  ELSE StopCompare(PyIndex(l, 0 - a.stopepoch),
                   PySliceFrom(l, 0 - a.stopepoch + 1))

\* the driver started with its arguments parsed
LoopInit ==
  /\ BnmInit /\ model.arch = <<"ReLU">> /\ ~model.training
  /\ args \in [nepoch : 0..MaxNepoch, stopepoch : (0 - 1)..MaxStopepoch]
  /\ epoch = 0
  /\ all_err_cls = <<>>
  /\ pc = "loop"

\* the end of one pass of the loop body: c is what the termination test gave
IterateDone(c) ==
  pc' = IF c = "true" THEN "break"
        ELSE IF c = "false" THEN "loop"
        ELSE "raised"

\* one pass of the body of `for epoch in range(1, args.nepoch+1)`, the test
\* error of the epoch being err_cls
Iterate(err_cls) ==
  /\ pc = "loop"
  /\ epoch < args.nepoch
  /\ epoch' = epoch + 1
  /\ all_err_cls' = Append(all_err_cls, err_cls)
  /\ IterateDone(StopCondition(args, epoch + 1, Append(all_err_cls, err_cls)))
  /\ UNCHANGED <<args, model, optimizer, wrapper, phase, viaSetup, nops, lastOp,
                 lastX, err, outputs, log, adaptOuts, start, pre, captured,
                 rets, adapted, collected>>

\* range(1, args.nepoch+1) is exhausted
Exhaust ==
  /\ pc = "loop"
  /\ epoch = args.nepoch
  /\ pc' = "done"
  /\ UNCHANGED <<args, epoch, all_err_cls, model, optimizer, wrapper, phase,
                 viaSetup, nops, lastOp, lastX, err, outputs, log, adaptOuts,
                 start, pre, captured, rets, adapted, collected>>

LoopNext ==
  \/ \E e \in Errors : Iterate(e)
  \/ Exhaust

\* the interpreter keeps executing the loop while it can
SpecLoop == LoopInit /\ [][LoopNext]_vars /\ WF_vars(LoopNext)
\* ------------------------------------------------------------ properties

\* the snapshot the wrapper holds, as a live-state record
Snapshot ==
  [model_state |-> wrapper.model_state[1],
   optimizer_state |-> wrapper.optimizer_state[1]]

\* the state dicts before the last operation
PreLive == Live(pre.model, pre.optimizer)

\* the parameters configure_model is to leave trainable: scale and shift of
\* the batch-norm layers
BNAffine(m) ==
  {p \in ParamSet(m) : IsBN(m.arch[p[1]]) /\ p[2] \in {"weight", "bias"}}

Events(l, name) == {k \in 1..Len(l) : l[k].ev = name}

\* C1: in episodic mode every forward loads the snapshot before its first
\* adaptation step, enters the adaptation loop in exactly the snapshot state,
\* and all values returned for one batch are the same.
C1_EpisodicRestore ==
  (wrapper.made /\ wrapper.episodic) =>
    /\ lastOp = "forward" =>
         /\ Len(log) > 0 /\ log[1].ev = "load"
         /\ Events(log, "load") = {1}
         /\ start = <<Snapshot>>
    /\ \A x \in Batches : \A i, j \in 1..Len(rets[x]) : rets[x][i] = rets[x][j]

\* an episodic forward returned for a batch it had returned for before, and
\* what it restored from differed from the snapshot in model and optimizer
C1_Witness ==
  /\ wrapper.made /\ wrapper.episodic
  /\ lastOp = "forward" /\ err = ""
  /\ Len(rets[lastX]) >= 2
  /\ PreLive.model_state # Snapshot.model_state
  /\ PreLive.optimizer_state # Snapshot.optimizer_state

\* C2: after a reset the live model state dict and the live optimizer state
\* equal what they were when the wrapper was constructed.
C2_RoundTrip ==
  (wrapper.made /\ lastOp = "reset" /\ err = "") =>
    Live(model, optimizer) = captured[1]

\* a reset after adaptation, on a wrapper captured with optimizer moments
C2_Witness ==
  /\ wrapper.made /\ lastOp = "reset" /\ err = ""
  /\ adapted > 0
  /\ captured[1].optimizer_state # <<>>
  /\ PreLive.model_state # captured[1].model_state
  /\ PreLive.optimizer_state # captured[1].optimizer_state
  /\ Live(model, optimizer) = captured[1]

\* C3: once the wrapper exists its snapshot is the state at construction,
\* whatever forwards and resets have run and whatever the live state is.
C3_SnapshotImmutable ==
  wrapper.made =>
    /\ wrapper.model_state = <<captured[1].model_state>>
    /\ wrapper.optimizer_state = <<captured[1].optimizer_state>>

\* two adaptation steps have run and the live state has left the snapshot
C3_Witness ==
  /\ wrapper.made /\ adapted >= 2
  /\ lastOp = "forward" /\ err = ""
  /\ Live(model, optimizer).model_state # Snapshot.model_state
  /\ Live(model, optimizer).optimizer_state # Snapshot.optimizer_state
  /\ Snapshot = captured[1]

\* C4: a forward that returns has run exactly `steps` adaptation steps, all on
\* its batch, then one forward pass in eval mode without gradient tracking and
\* nothing after it; the value returned is the output of that pass, which is
\* the output of the adapted model.
C4_StepsThenEvalPass ==
  (wrapper.made /\ lastOp = "forward" /\ err = "") =>
    /\ Cardinality(Events(log, "train")) = wrapper.steps
    /\ Cardinality(Events(log, "step")) = wrapper.steps
    /\ Cardinality(Events(log, "zero_grad")) = wrapper.steps
    /\ Len(adaptOuts) = wrapper.steps
    /\ \A k \in 1..Len(log) : log[k].ev # "load" => log[k].x = lastX
    /\ Events(log, "eval") = {Len(log) - 1}
    /\ {k \in 1..Len(log) : log[k].ev = "forward" /\ ~log[k].grad} = {Len(log)}
    /\ ~log[Len(log)].training
    /\ \A k \in 1..(Len(log) - 2) : log[k].grad
    /\ outputs = <<model_call(model, lastX).out>>
    /\ ~model.training

\* a forward with several steps returned a value none of its adaptation
\* steps produced
C4_Witness ==
  /\ wrapper.made /\ lastOp = "forward" /\ err = ""
  /\ wrapper.steps >= 2
  /\ \A k \in 1..Len(adaptOuts) : adaptOuts[k] # outputs[1]
  /\ adaptOuts[1] # adaptOuts[2]

\* C5: a forward in continual mode loads nothing and enters its adaptation
\* loop in the state the previous operation left; the snapshot is loaded only
\* by a reset or by a forward in episodic mode.
C5_ContinualAccumulates ==
  [][ wrapper.made =>
        /\ (~wrapper.episodic /\ lastOp' = "forward") =>
              /\ Events(log', "load") = {}
              /\ start' = <<Live(model, optimizer)>>
        /\ Events(log', "load") # {} =>
              \/ lastOp' = "reset"
              \/ lastOp' = "forward" /\ wrapper.episodic ]_vars

\* a second continual forward started from an adapted state
C5_Witness ==
  /\ wrapper.made /\ ~wrapper.episodic
  /\ lastOp = "forward" /\ err = ""
  /\ adapted > wrapper.steps
  /\ start # <<Snapshot>>
  /\ start[1].optimizer_state # Snapshot.optimizer_state
  /\ Live(model, optimizer) # start[1]

\* C6 (as claimed): a wrapper built by setup_bnm never adapts a model whose
\* trainable parameters are not a non-empty proper subset of its parameters.
C6_SetupFailsFast ==
  (viaSetup /\ adapted > 0) =>
    /\ Trainable(model) # {}
    /\ Trainable(model) # ParamSet(model)

\* C7: check_model raises exactly when the model is in eval mode, or has no
\* trainable parameter, or has only trainable parameters, or has no
\* batch-norm layer; its message names a condition that holds; it changes
\* nothing.
C7_CheckModel ==
  lastOp = "check" =>
    /\ (err = "") <=>
         /\ model.training
         /\ Trainable(model) # {}
         /\ Trainable(model) # ParamSet(model)
         /\ BNIdx(model.arch) # {}
    /\ err = "BNM needs train mode: call model.train()" => ~model.training
    /\ err = "BNM needs params to update: check which require grad"
         => Trainable(model) = {}
    /\ err = "BNM should not update all params: check which require grad"
         => Trainable(model) = ParamSet(model)
    /\ err = "BNM needs normalization for its optimization"
         => BNIdx(model.arch) = {}
    /\ model = pre.model /\ optimizer = pre.optimizer

\* a model in train mode with some but not all parameters trainable is
\* rejected for want of a batch-norm layer
C7_Witness ==
  /\ lastOp = "check"
  /\ err = "BNM needs normalization for its optimization"
  /\ model.training
  /\ Trainable(model) # {} /\ Trainable(model) # ParamSet(model)

\* C8 (as claimed): the optimizer setup_bnm builds holds exactly the
\* parameters that require grad.
C8_OptimizerBoundToAdaptable ==
  viaSetup => optimizer.params = Trainable(model)

\* C9: once the optimizer is built, no operation changes a gradient flag or
\* the value of a parameter that does not require grad.
C9_FrozenUntouched ==
  [][ phase # "model" =>
        /\ model'.rg = model.rg
        /\ \A p \in ParamSet(model) \ Trainable(model) :
             model'.val[p] = model.val[p] ]_vars

\* the optimizer holds a frozen parameter, adaptation has moved a trainable
\* one, and the frozen ones are where they were at construction
C9_Witness ==
  /\ wrapper.made /\ adapted > 0
  /\ optimizer.params \ Trainable(model) # {}
  /\ \E q \in Trainable(model) : model.val[q] # captured[1].model_state.val[q]
  /\ \A p \in ParamSet(model) \ Trainable(model) :
       model.val[p] = captured[1].model_state.val[p]

\* C10: after configure_model the trainable parameters are exactly the
\* weight and bias of the batch-norm layers.
C10_ConfigureTrainable ==
  lastOp \in {"configure", "setup"} => Trainable(model) = BNAffine(model)

\* configure_model has frozen a trainable non-batch-norm parameter and
\* unfrozen a frozen batch-norm one
C10_Witness ==
  /\ lastOp = "configure"
  /\ Trainable(pre.model) \ BNAffine(model) # {}
  /\ BNAffine(model) \ Trainable(pre.model) # {}
  /\ Trainable(model) = BNAffine(model)


\* every batch-norm layer has track_running_stats off and no running statistics
NormConfigured(m) ==
  \A i \in BNIdx(m.arch) :
    ~m.track[i] /\ m.rmean[i] = NoVal /\ m.rvar[i] = NoVal

\* the statistics sources a list of outputs was normalised with
StatSources(m, outs) ==
  {outs[k].stat[i].src : k \in 1..Len(outs), i \in BNIdx(m.arch)}

\* C11: configure_model leaves the model in train mode with every batch-norm
\* layer not tracking and without running mean and variance; no later
\* operation (adaptation step, forward, reset, eval) changes that; and on such
\* a model every pass, the adaptation steps in train mode and the final pass
\* in eval mode, normalises with the statistics of the batch.
C11_BatchStatistics ==
  [][ /\ lastOp' \in {"configure", "setup"} =>
           NormConfigured(model') /\ model'.training
      /\ NormConfigured(model) =>
           /\ NormConfigured(model')
           /\ StatSources(model', adaptOuts') \subseteq {"batch"}
           /\ StatSources(model', outputs') \subseteq {"batch"} ]_vars

\* a configured model with a batch-norm layer, adapted by an earlier call,
\* ran a forward whose eval-mode pass used the statistics of the batch
C11_Witness ==
  /\ wrapper.made /\ lastOp = "forward" /\ err = ""
  /\ BNIdx(model.arch) # {}
  /\ NormConfigured(model) /\ NormConfigured(pre.model)
  /\ ~model.training
  /\ adapted > wrapper.steps
  /\ StatSources(model, outputs) = {"batch"}
  /\ StatSources(model, adaptOuts) = {"batch"}

\* the flags configure_model sets on the batch-norm layers
NormFlags(m) == [track |-> m.track, rmean |-> m.rmean, rvar |-> m.rvar]

\* C12: configure_model is idempotent: applied to a model it has just
\* returned it changes nothing, so the trainable set, the batch-norm flags
\* and the mode after two applications are those after one.
C12_ConfigureIdempotent ==
  lastOp = "configure" =>
    /\ Trainable(configure_model(model)) = Trainable(model)
    /\ NormFlags(configure_model(model)) = NormFlags(model)
    /\ configure_model(model).training = model.training
    /\ configure_model(model) = model
    /\ NormConfigured(pre.model) /\ Trainable(pre.model) = BNAffine(pre.model)
         /\ pre.model.training => model = pre.model

\* configure_model was applied a second time, to a model with frozen
\* parameters and a batch-norm layer, and returned it as it was
C12_Witness ==
  /\ lastOp = "configure" /\ nops >= 2
  /\ BNIdx(model.arch) # {}
  /\ Trainable(model) # ParamSet(model)
  /\ pre.model = model

NoSnapshot == wrapper.model_state = <<>> \/ wrapper.optimizer_state = <<>>

ResetError == "cannot reset without saved model/optimizer state"

\* C13: reset raises exactly when model_state or optimizer_state is None, and
\* then changes neither the model nor the optimizer; with both present it
\* returns with the live state dicts equal to the copies.  An episodic
\* forward on a wrapper with a copy missing raises the same error before any
\* adaptation step: nothing is logged, returned or changed.
C13_ResetNeedsSnapshot ==
  wrapper.made =>
    /\ lastOp = "reset" =>
         /\ (err = ResetError) <=> NoSnapshot
         /\ NoSnapshot => model = pre.model /\ optimizer = pre.optimizer
         /\ ~NoSnapshot => err = "" /\ Live(model, optimizer) = Snapshot
    /\ (lastOp = "forward" /\ wrapper.episodic /\ NoSnapshot) =>
         /\ err = ResetError
         /\ log = <<>> /\ adaptOuts = <<>> /\ outputs = <<>>
         /\ model = pre.model /\ optimizer = pre.optimizer

\* a reset on an adapted wrapper whose optimizer copy alone is missing failed
\* and left the live state away from the state at construction
C13_Witness ==
  /\ wrapper.made /\ lastOp = "reset" /\ err = ResetError
  /\ wrapper.model_state # <<>> /\ wrapper.optimizer_state = <<>>
  /\ adapted > 0
  /\ Live(model, optimizer).model_state # captured[1].model_state
  /\ model = pre.model /\ optimizer = pre.optimizer

StepsError == "BNM requires >= 1 step(s) to forward and update"

\* C14: BNM(model, optimizer, steps, episodic) returns exactly when
\* steps >= 1, and then holds copies equal to the state dicts at that moment
\* and has changed neither model nor optimizer; with steps < 1 it raises and
\* no wrapper exists.  Hence every wrapper has steps >= 1 and every forward
\* that returns has run at least one adaptation step.
C14_ConstructionNeedsSteps ==
  /\ lastOp = "init" =>
       /\ (err = "") <=> (lastX >= 1)
       /\ lastX >= 1 =>
            /\ wrapper.made /\ wrapper.steps = lastX
            /\ Snapshot = Live(model, optimizer)
            /\ Snapshot = PreLive
            /\ model = pre.model /\ optimizer = pre.optimizer
       /\ lastX < 1 => err = StepsError /\ ~wrapper.made /\ wrapper = NoWrapper
  /\ wrapper.made => wrapper.steps >= 1
  /\ (lastOp = "forward" /\ err = "") =>
       /\ Cardinality(Events(log, "step")) >= 1
       /\ Len(adaptOuts) >= 1

\* a wrapper was built on a model and optimizer that had already adapted, and
\* its copies hold that adapted state
C14_Witness ==
  /\ lastOp = "init" /\ err = "" /\ wrapper.made
  /\ Snapshot.optimizer_state # <<>>
  /\ \E p \in ParamSet(model) : Snapshot.model_state.val[p] # 0
  /\ Snapshot = Live(model, optimizer)

\* dict(model.named_parameters())[n]: the parameters of the model named n
Named(m, n) == {p \in ParamSet(m) : ParamName(p) = n}

\* C15: collect_params changes nothing and returns two lists of one length,
\* the i-th name being the name of the i-th parameter and no parameter listed
\* twice; with bn_only the parameters are exactly the weight and bias of the
\* batch-norm layers, otherwise they are all the parameters of the model.
C15_CollectParams ==
  lastOp = "collect" =>
    /\ Len(collected) = 1
    /\ Len(collected[1].names) = Len(collected[1].params)
    /\ \A k \in 1..Len(collected[1].params) :
         Named(model, collected[1].names[k]) = {collected[1].params[k]}
    /\ Cardinality(Range(collected[1].params)) = Len(collected[1].params)
    /\ Range(collected[1].params) =
         IF collected[1].bn_only THEN BNAffine(model) ELSE ParamSet(model)
    /\ model = pre.model /\ optimizer = pre.optimizer /\ wrapper = NoWrapper
    /\ err = ""

\* bn_only collection on an unconfigured model that mixes a batch-norm layer
\* with a layer of another kind, whose parameters are trainable and left out
C15_Witness ==
  /\ lastOp = "collect" /\ collected[1].bn_only
  /\ Len(collected[1].params) = 2
  /\ Range(collected[1].params) # ParamSet(model)
  /\ Trainable(model) \ Range(collected[1].params) # {}
  /\ {ParamName(p) : p \in BNAffine(model)} = Range(collected[1].names)

EvNames(l) == [k \in 1..Len(l) |-> l[k].ev]

StepOrder == <<"train", "forward", "backward", "step", "zero_grad">>

\* the log of the last operation without the load of an episodic reset
StepsLog == IF Len(log) > 0 /\ log[1].ev = "load" THEN Tail(log) ELSE log

\* the Adam step count of parameter p in optimizer o
StepCount(o, p) == IF p \in DOMAIN o.state THEN o.state[p].step ELSE 0

\* one returned forward_and_adapt(lastX, pre.model, pre.optimizer): its five
\* statements in order; the model left in train mode; the outputs returned
\* computed from the parameter values on entry, in train mode (batch
\* statistics); every optimizer parameter that requires grad stepped once,
\* no parameter stepped twice, none outside the optimizer stepped or moved
StepInOrder ==
  /\ EvNames(log) = StepOrder
  /\ \A k \in 1..Len(log) : log[k].training /\ log[k].grad /\ log[k].x = lastX
  /\ model.training
  /\ Len(adaptOuts) = 1
  /\ adaptOuts[1] = model_call(train(pre.model), lastX).out
  /\ adaptOuts[1].val = pre.model.val
  /\ StatSources(model, adaptOuts) \subseteq {"batch"}
  /\ \A p \in ParamSet(model) :
       /\ StepCount(optimizer, p) - StepCount(pre.optimizer, p) \in {0, 1}
       /\ StepCount(optimizer, p) = StepCount(pre.optimizer, p) + 1
            => p \in optimizer.params
       /\ (p \in optimizer.params /\ pre.model.rg[p])
            => StepCount(optimizer, p) = StepCount(pre.optimizer, p) + 1
       /\ StepCount(optimizer, p) = StepCount(pre.optimizer, p)
            => model.val[p] = pre.model.val[p]

\* the adaptation steps of a returned forward, each in the same order
ForwardStepsInOrder ==
  \A j \in 0..(wrapper.steps - 1) :
    SubSeq(EvNames(StepsLog), 5 * j + 1, 5 * j + 5) = StepOrder

\* C16 (as claimed): a forward_and_adapt that returns has run its statements
\* in the fixed order and leaves no parameter with a gradient.
C16_NoPendingGradient ==
  /\ (lastOp = "adapt" /\ err = "") =>
       StepInOrder /\ \A p \in ParamSet(model) : model.grad[p] = NoVal
  /\ (lastOp = "forward" /\ err = "") =>
       ForwardStepsInOrder /\ \A p \in ParamSet(model) : model.grad[p] = NoVal

\* C16 (amended): a forward_and_adapt that returns has, whatever the mode on
\* entry, set train mode, computed the outputs it returns, then the
\* gradients, then made one optimizer step, then cleared the gradients of the
\* optimizer's parameters: on return none of those holds a gradient.
C16_StepOrder ==
  /\ (lastOp = "adapt" /\ err = "") =>
       /\ StepInOrder
       /\ \A p \in optimizer.params : model.grad[p] = NoVal
  /\ (lastOp = "forward" /\ err = "") =>
       /\ ForwardStepsInOrder
       /\ \A p \in optimizer.params : model.grad[p] = NoVal

\* a step entered in eval mode returned in train mode with the optimizer's
\* parameters moved and cleared and a gradient left on a parameter outside it
C16_Witness ==
  /\ lastOp = "adapt" /\ err = ""
  /\ ~pre.model.training /\ model.training
  /\ \E p \in optimizer.params : model.val[p] # pre.model.val[p]
  /\ \A p \in optimizer.params : model.grad[p] = NoVal
  /\ \E p \in ParamSet(model) \ optimizer.params : model.grad[p] # NoVal
  /\ adaptOuts[1] # model_call(model, lastX).out

\* C17: the copies the wrapper holds carry no train/eval flag.  A forward
\* that returns leaves the model in eval mode; a reset, failed or not, leaves
\* the flag as it was, so after a forward it stays in eval mode; and every
\* adaptation step of a forward runs in train mode and normalises with batch
\* statistics, whatever the flag was when the forward was called.
C17_ModeNotInSnapshot ==
  wrapper.made =>
    /\ "training" \notin DOMAIN Snapshot.model_state
    /\ (lastOp = "forward" /\ err = "") => ~model.training
    /\ lastOp = "reset" => model.training = pre.model.training
    /\ lastOp = "forward" =>
         /\ \A k \in 1..Len(log) :
              (log[k].ev \in {"forward", "backward", "step", "zero_grad"}
                 /\ log[k].grad) => log[k].training
         /\ StatSources(model, adaptOuts) \subseteq {"batch"}

\* a wrapper built by setup_bnm, hence on a model in train mode, was reset
\* after a forward and the model is still in eval mode
C17_Witness ==
  /\ viaSetup /\ lastOp = "reset" /\ err = ""
  /\ adapted > 0
  /\ ~model.training /\ ~pre.model.training
  /\ Live(model, optimizer) = Snapshot


\* the error recorded args.stopepoch entries from the end of the first k
\* entries is strictly smaller than every error recorded after it
Improved(k) ==
  \A j \in (k - args.stopepoch + 2)..k :
    all_err_cls[k - args.stopepoch + 1] < all_err_cls[j]

\* the termination test as claimed, at epoch k
StopsAt(k) == k > args.stopepoch + 1 /\ Improved(k)

LoopSafe ==
  /\ epoch <= args.nepoch
  /\ Len(all_err_cls) = epoch
  /\ pc = "break" => epoch > args.stopepoch + 1
  /\ pc = "done" => epoch = args.nepoch
  /\ args.stopepoch >= 2 =>
       /\ pc # "raised"
       /\ \A k \in 1..(epoch - 1) : ~StopsAt(k)
       /\ epoch >= 1 => ((pc = "break") <=> StopsAt(epoch))

\* C18: the driver loop ends, by exhausting its range, by break or by an
\* exception, after at most nepoch epochs; it has recorded one error per
\* epoch; it never breaks at an epoch <= stopepoch + 1; and for
\* stopepoch >= 2 it breaks exactly at the first epoch > stopepoch + 1 at
\* which the error recorded stopepoch entries from the end is strictly
\* smaller than every later one, and raises nothing.
C18_DriverLoop == [](pc # "idle" => LoopSafe) /\ <>(pc \in {"done", "break", "raised"})

\* the loop broke before its last epoch, and not at the first epoch at which
\* it may
C18_Witness ==
  /\ pc = "break"
  /\ args.stopepoch >= 2
  /\ epoch > args.stopepoch + 2
  /\ epoch < args.nepoch
  /\ StopsAt(epoch)
====
